---------------------------- MODULE Spec2Model ----------------------------
(***************************************************************************)
(* Model of src/notion/exportNotionJournalToObsidian.ts: the Notion        *)
(* journal exporter.  Text is a sequence of one-character strings; an      *)
(* optional value (string | null | undefined) is a sequence of length at   *)
(* most one, << >> being null.                                             *)
(*                                                                         *)
(* Four specifications share the module:                                   *)
(*   SpecInline  toInlineMarkdown applied to rich text                     *)
(*   SpecRender  stringifyBlocks / stringifyBlock applied to block trees   *)
(*   SpecFetch   the two cursor-chasing fetchPage collectors               *)
(*   SpecRun     run(): listing, name allocation, the export pipelines     *)
(***************************************************************************)
EXTENDS Integers, Sequences, FiniteSets, TLC

VARIABLES
    richText, inlineOut, inlinePc,
    blocks, markdown, rendered, renderPc,
    source, collector, fetchPc, cursor, acc, requests, received, fetchResult,
    runPc, pages, usedNames, exportJobs, allocLog, jobPc, files, fetchFailed

inlineVars == <<richText, inlineOut, inlinePc>>
renderVars == <<blocks, markdown, rendered, renderPc>>
fetchVars == <<source, collector, fetchPc, cursor, acc, requests, received, fetchResult>>
runVars == <<runPc, pages, usedNames, exportJobs, allocLog, jobPc, files, fetchFailed>>
vars == <<inlineVars, renderVars, fetchVars, runVars>>

(***************************************************************************)
(* Bounds of the model.                                                    *)
(***************************************************************************)
MaxRuns == 2
MaxDepth == 2
MaxListPages == 3
MaxItems == 2
MaxPages == 4
\* Stands for the 10000 of Array.from({ length: 10000 }, ...) (line 310).
ProbeLen == 2

(***************************************************************************)
(* Text helpers: what the JavaScript string operations do.                 *)
(***************************************************************************)
NL == "\n"
CR == "\r"
SP == " "
\* The backquote character (the parser accepts no backquote in a string literal).
BT == "backquote"

Null == << >>
Some(v) == << v >>

\* JavaScript truthiness of string | null: a non-null, non-empty string.
Truthy(opt) == Len(opt) = 1 /\ Len(opt[1]) > 0

IsWhite(c) == c \in {SP, NL, CR, "\t"}

RECURSIVE TrimStart(_)
TrimStart(s) ==
    IF s # << >> /\ IsWhite(Head(s)) THEN TrimStart(Tail(s)) ELSE s

RECURSIVE TrimEnd(_)
TrimEnd(s) ==
    IF s # << >> /\ IsWhite(s[Len(s)]) THEN TrimEnd(SubSeq(s, 1, Len(s) - 1)) ELSE s

\* String.prototype.trim
Trim(s) == TrimEnd(TrimStart(s))

RECURSIVE Repeat(_, _)
Repeat(s, n) == IF n <= 0 THEN << >> ELSE s \o Repeat(s, n - 1)

\* Array.prototype.join
RECURSIVE Join(_, _)
Join(parts, sep) ==
    IF parts = << >> THEN << >>
    ELSE IF Len(parts) = 1 THEN parts[1]
    ELSE parts[1] \o sep \o Join(Tail(parts), sep)

RECURSIVE normalizeText(_)
normalizeText(value) ==
    IF value = << >> THEN << >>
    ELSE IF Len(value) >= 2 /\ value[1] = CR /\ value[2] = NL
         THEN <<NL>> \o normalizeText(SubSeq(value, 3, Len(value)))
         ELSE <<Head(value)>> \o normalizeText(Tail(value))

(***************************************************************************)
(* toInlineMarkdown (lines 26-50).                                         *)
(***************************************************************************)
Annotations == [code : BOOLEAN, bold : BOOLEAN, italic : BOOLEAN,
                strikethrough : BOOLEAN, underline : BOOLEAN]

NoAnnotations == [code |-> FALSE, bold |-> FALSE, italic |-> FALSE,
                  strikethrough |-> FALSE, underline |-> FALSE]

TextRun(text, ann, href) ==
    [type |-> "text", plain_text |-> text, annotations |-> ann,
     href |-> href, expression |-> << >>]

EquationRun(expr, ann, href) ==
    [type |-> "equation", plain_text |-> expr, annotations |-> ann,
     href |-> href, expression |-> expr]

\* A mutation of itemMarkdown: strikethrough applied outside underline.
itemMarkdownSwapped(item) ==
    LET base == item.plain_text
        withCode == IF item.annotations.code THEN <<BT>> \o base \o <<BT>> ELSE base
        withBold == IF item.annotations.bold
                    THEN <<"*", "*">> \o withCode \o <<"*", "*">> ELSE withCode
        withItalic == IF item.annotations.italic
                      THEN <<"*">> \o withBold \o <<"*">> ELSE withBold
        withUnderline == IF item.annotations.underline
                         THEN <<"<", "u", ">">> \o withItalic \o <<"<", "/", "u", ">">>
                         ELSE withItalic
        withStrike == IF item.annotations.strikethrough
                      THEN <<"~", "~">> \o withUnderline \o <<"~", "~">>
                      ELSE withUnderline
        withLink == IF Truthy(item.href)
                    THEN <<"[">> \o withStrike \o <<"]", "(">> \o item.href[1] \o <<")">>
                    ELSE withStrike
    IN  IF item.type = "equation"
        THEN <<"$">> \o item.expression \o <<"$">>
        ELSE withLink

\* The callback of richText.map (lines 28-49).
itemMarkdown(item) ==
    LET base == item.plain_text
        withCode == IF item.annotations.code THEN <<BT>> \o base \o <<BT>> ELSE base
        withBold == IF item.annotations.bold
                    THEN <<"*", "*">> \o withCode \o <<"*", "*">> ELSE withCode
        withItalic == IF item.annotations.italic
                      THEN <<"*">> \o withBold \o <<"*">> ELSE withBold
        withStrike == IF item.annotations.strikethrough
                      THEN <<"~", "~">> \o withItalic \o <<"~", "~">>
                      ELSE withItalic
        withUnderline == IF item.annotations.underline
                         THEN <<"<", "u", ">">> \o withStrike \o <<"<", "/", "u", ">">>
                         ELSE withStrike
        withLink == IF Truthy(item.href)
                    THEN <<"[">> \o withUnderline \o <<"]", "(">> \o item.href[1] \o <<")">>
                    ELSE withUnderline
    IN  IF item.type = "equation"
        THEN <<"$">> \o item.expression \o <<"$">>
        ELSE withLink

toInlineMarkdown(rt) ==
    Join([i \in 1..Len(rt) |-> itemMarkdown(rt[i])], << >>)

(***************************************************************************)
(* Blocks.  children is what fetchBlocksRecursively(block.id) resolves to  *)
(* (the full blocks of every page of the listing, in order).               *)
(***************************************************************************)
RichText(chars) ==
    IF chars = << >> THEN << >> ELSE <<TextRun(chars, NoAnnotations, Null)>>

Blk(type, chars, kids) ==
    [type |-> type, rich_text |-> RichText(chars), checked |-> FALSE,
     icon |-> Null, language |-> Some(<<"j", "s">>), expression |-> <<"e">>,
     file_type |-> "external", external_url |-> <<"x">>, file_url |-> <<"f">>,
     caption |-> << >>, url |-> <<"u">>, title |-> <<"T">>,
     has_children |-> Len(kids) > 0, children |-> kids]

\* A mutation of indent: one space per level.
indentOneSpace(depth) == Repeat(<<SP>>, depth)

\* indent (line 74)
indent(depth) == Repeat(<<SP, SP>>, depth)

\* A mutation of nestedDepth: children rendered at their parent's depth.
nestedDepthSame(depth) == depth

\* The depth handed to the children of a block rendered at depth (line 84).
nestedDepth(depth) == depth + 1

\* block.X.type === "external" ? block.X.external.url : block.X.file.url
mediaUrl(block) ==
    IF block.file_type = "external" THEN block.external_url ELSE block.file_url

\* The filter of stringifyBlocks (line 227).
keepLine(line) == Len(Trim(line)) > 0

RECURSIVE stringifyBlock(_, _)
RECURSIVE stringifyBlocks(_, _)

\* stringifyBlock (lines 76-215)
stringifyBlock(block, depth) ==
    LET nested == IF block.has_children THEN block.children ELSE << >>
        nestedMarkdown ==
            IF Len(nested) > 0
            THEN <<NL>> \o stringifyBlocks(nested, nestedDepth(depth))
            ELSE << >>
        text == toInlineMarkdown(block.rich_text)
        caption == toInlineMarkdown(block.caption)
        fence == <<BT, BT, BT>>
    IN  CASE block.type = "paragraph" ->
                IF Len(text) > 0 THEN indent(depth) \o text \o nestedMarkdown ELSE << >>
          [] block.type = "heading_1" -> indent(depth) \o <<"#", SP>> \o text
          [] block.type = "heading_2" -> indent(depth) \o <<"#", "#", SP>> \o text
          [] block.type = "heading_3" -> indent(depth) \o <<"#", "#", "#", SP>> \o text
          [] block.type = "to_do" ->
                indent(depth) \o <<"-", SP, "[">>
                    \o (IF block.checked THEN <<"x">> ELSE <<SP>>)
                    \o <<"]", SP>> \o text \o nestedMarkdown
          [] block.type = "toggle" ->
                indent(depth) \o <<"-", SP>> \o text \o nestedMarkdown
          [] block.type = "quote" ->
                indent(depth) \o <<">", SP>> \o text \o nestedMarkdown
          [] block.type = "callout" ->
                indent(depth) \o <<">", SP>>
                    \o (IF block.icon # Null THEN block.icon[1] \o <<SP>> ELSE << >>)
                    \o text \o nestedMarkdown
          [] block.type = "code" ->
                indent(depth) \o fence
                    \o (IF block.language # Null THEN block.language[1]
                        ELSE <<"t", "e", "x", "t">>)
                    \o <<NL>> \o text \o <<NL>> \o indent(depth) \o fence
          [] block.type = "divider" -> indent(depth) \o <<"-", "-", "-">>
          [] block.type = "equation" ->
                indent(depth) \o <<"$", "$">> \o block.expression \o <<"$", "$">>
          [] block.type = "image" ->
                indent(depth) \o <<"!", "[">>
                    \o (IF Len(caption) > 0 THEN caption ELSE <<"i", "m", "a", "g", "e">>)
                    \o <<"]", "(">> \o mediaUrl(block) \o <<")">>
          [] block.type = "bookmark" ->
                indent(depth) \o <<"[">> \o block.url \o <<"]", "(">> \o block.url \o <<")">>
          [] block.type = "file" ->
                indent(depth) \o <<"[">>
                    \o (IF Len(caption) > 0 THEN caption ELSE <<"f", "i", "l", "e">>)
                    \o <<"]", "(">> \o mediaUrl(block) \o <<")">>
          [] block.type = "video" ->
                indent(depth) \o <<"[", "v", "i", "d", "e", "o", "]", "(">>
                    \o mediaUrl(block) \o <<")">>
          [] block.type = "audio" ->
                indent(depth) \o <<"[", "a", "u", "d", "i", "o", "]", "(">>
                    \o mediaUrl(block) \o <<")">>
          [] block.type = "pdf" ->
                indent(depth) \o <<"[", "p", "d", "f", "]", "(">>
                    \o mediaUrl(block) \o <<")">>
          [] block.type = "link_preview" ->
                indent(depth) \o <<"[">> \o block.url \o <<"]", "(">> \o block.url \o <<")">>
          [] block.type = "child_page" -> indent(depth) \o <<"#", "#", SP>> \o block.title
          [] block.type = "child_database" ->
                indent(depth) \o <<"#", "#", SP>> \o block.title
          [] block.type = "table_of_contents" ->
                indent(depth) \o <<"[", "T", "a", "b", "l", "e", SP, "o", "f", SP,
                                   "C", "o", "n", "t", "e", "n", "t", "s", "]">>
          [] block.type = "bulleted_list_item" ->
                indent(depth) \o <<"-", SP>> \o text \o nestedMarkdown
          [] block.type = "numbered_list_item" ->
                indent(depth) \o <<"1", ".", SP>> \o text \o nestedMarkdown
          [] OTHER -> << >>

\* stringifyBlocks (lines 217-229)
stringifyBlocks(bs, depth) ==
    LET markdownLines == [i \in 1..Len(bs) |-> stringifyBlock(bs[i], depth)]
        normalized == [i \in 1..Len(bs) |-> normalizeText(markdownLines[i])]
    IN  Join(SelectSeq(normalized, keepLine), <<NL, NL>>)

(***************************************************************************)
(* The calls of stringifyBlock that rendering a block list makes: for each *)
(* call the block, the depth the code passes, the block's depth in the     *)
(* tree, and the string returned.                                          *)
(***************************************************************************)
RECURSIVE renderCalls(_, _, _)
renderCalls(bs, depth, treeDepth) ==
    UNION {
        {[block |-> bs[i], depth |-> depth, treeDepth |-> treeDepth,
          out |-> stringifyBlock(bs[i], depth)]}
        \cup (IF bs[i].has_children /\ Len(bs[i].children) > 0
              THEN renderCalls(bs[i].children, nestedDepth(depth), treeDepth + 1)
              ELSE {})
        : i \in 1..Len(bs) }

(***************************************************************************)
(* Inputs of the inline composer: every single run, and short sequences of *)
(* a few distinguishable runs.                                             *)
(***************************************************************************)
Hrefs == {Null, Some(<< >>), Some(<<"u">>)}

AllRuns ==
    {TextRun(t, a, h) : t \in {<< >>, <<"a">>}, a \in Annotations, h \in Hrefs}
    \cup {EquationRun(<<"e">>, a, h) : a \in Annotations, h \in {Null, Some(<<"u">>)}}

SeqRuns ==
    {TextRun(<<"a">>, NoAnnotations, Null),
     TextRun(<<"b">>, [NoAnnotations EXCEPT !.bold = TRUE, !.italic = TRUE], Some(<<"u">>)),
     TextRun(<< >>, [NoAnnotations EXCEPT !.underline = TRUE], Null),
     TextRun(<<"c">>, [NoAnnotations EXCEPT !.code = TRUE, !.strikethrough = TRUE], Null),
     EquationRun(<<"e">>, [NoAnnotations EXCEPT !.bold = TRUE], Some(<<"u">>))}

InlineInputs ==
    {<<r>> : r \in AllRuns} \cup UNION {[1..n -> SeqRuns] : n \in 0..MaxRuns}

InlineIdle == richText = << >> /\ inlineOut = << >> /\ inlinePc = "off"

\* One call of toInlineMarkdown.
ComposeInline ==
    /\ inlinePc = "input"
    /\ inlineOut' = toInlineMarkdown(richText)
    /\ inlinePc' = "done"
    /\ UNCHANGED richText
    /\ UNCHANGED <<renderVars, fetchVars, runVars>>

(***************************************************************************)
(* Inputs of the renderer: every block kind as a leaf, under a chain of    *)
(* list items, as the parent of a paragraph and with has_children set but  *)
(* no full child listed; and all trees to MaxDepth over a few kinds.       *)
(***************************************************************************)
TextKinds == {"paragraph", "heading_1", "heading_2", "heading_3", "to_do", "toggle",
              "quote", "callout", "code", "bulleted_list_item", "numbered_list_item"}

MediaKinds == {"image", "file", "video", "audio", "pdf"}

OtherKinds == {"divider", "equation", "bookmark", "link_preview", "child_page",
               "child_database", "table_of_contents", "table"}

ParagraphA == Blk("paragraph", <<"a">>, << >>)
Unsupported == Blk("table", << >>, << >>)

LeafBlocks ==
    {Blk(k, t, << >>) : k \in TextKinds, t \in {<< >>, <<"a">>, <<SP, "a">>}}
    \cup {[Blk("to_do", <<"a">>, << >>) EXCEPT !.checked = TRUE],
          [Blk("callout", <<"a">>, << >>) EXCEPT !.icon = Some(<<"i">>)],
          [Blk("code", <<"a">>, << >>) EXCEPT !.language = Null]}
    \cup {[Blk(k, << >>, << >>) EXCEPT !.file_type = ft, !.caption = RichText(c)] :
            k \in MediaKinds, ft \in {"external", "file"}, c \in {<< >>, <<"c">>}}
    \cup {Blk(k, << >>, << >>) : k \in OtherKinds}

RECURSIVE Wrap(_, _)
Wrap(b, n) ==
    IF n = 0 THEN b ELSE Blk("bulleted_list_item", <<"a">>, <<Wrap(b, n - 1)>>)

SmallHeads ==
    {<<"paragraph", << >>>>, <<"paragraph", <<"a">>>>, <<"to_do", <<"a">>>>,
     <<"heading_1", <<"a">>>>, <<"table", << >>>>}

\* Child lists around one subtree: alone, or between a block that renders
\* empty and a paragraph.
KidLists(sub) ==
    {<<c>> : c \in sub} \cup {<<Unsupported, c, ParagraphA>> : c \in sub}

RECURSIVE SmallTrees(_)
SmallTrees(d) ==
    LET leaves == {Blk(h[1], h[2], << >>) : h \in SmallHeads}
        lists == KidLists(SmallTrees(d - 1))
    IN  IF d = 0 THEN leaves
        ELSE leaves \cup {Blk(h[1], h[2], kids) : h \in SmallHeads, kids \in lists}

RenderInputs ==
    {<< >>}
    \cup {<<Wrap(b, n)>> : b \in LeafBlocks, n \in 0..MaxDepth}
    \cup {<<[b EXCEPT !.has_children = TRUE, !.children = <<ParagraphA>>]>> : b \in LeafBlocks}
    \cup {<<[b EXCEPT !.has_children = TRUE]>> : b \in LeafBlocks}
    \cup KidLists(SmallTrees(MaxDepth))

RenderIdle == blocks = << >> /\ markdown = << >> /\ rendered = {} /\ renderPc = "off"

\* The depth parameter's default (lines 78 and 219).
defaultDepth == 0

\* const content = await stringifyBlocks(blocks) (line 340), children resolved.
Render ==
    /\ renderPc = "input"
    /\ markdown' = stringifyBlocks(blocks, defaultDepth)
    /\ rendered' = renderCalls(blocks, defaultDepth, 0)
    /\ renderPc' = "done"
    /\ UNCHANGED blocks
    /\ UNCHANGED <<inlineVars, fetchVars, runVars>>

(***************************************************************************)
(* The cursor-chasing collectors: fetchPage of fetchBlocksRecursively      *)
(* (lines 231-253) and of fetchAllPages (lines 255-296).  source is the    *)
(* listing the server holds, one response per page; a cursor names the     *)
(* page it continues with.  An item is full (isFullBlock / isFullPage) or  *)
(* partial.                                                                *)
(***************************************************************************)
CursorOf(k) == <<"c", k>>

\* The response the server gives to a request: no start_cursor is the first page.
Serve(src, startCursor) ==
    IF ~Truthy(startCursor) THEN src[1] ELSE src[startCursor[1][2]]

isFull(item) == item.full

\* A mutation of fetchBlocksNext: the accumulator is not passed on.
fetchBlocksNextDropsAcc(response, soFar) ==
    LET fullBlocks == SelectSeq(response.results, isFull)
    IN  [again |-> response.has_more /\ Truthy(response.next_cursor),
         cursor |-> response.next_cursor,
         acc |-> fullBlocks]

\* fetchPage of fetchBlocksRecursively after its await (lines 244-249):
\* whether it calls itself again, with which cursor, and the accumulator.
fetchBlocksNext(response, soFar) ==
    LET fullBlocks == SelectSeq(response.results, isFull)
        nextAcc == soFar \o fullBlocks
    IN  [again |-> response.has_more /\ Truthy(response.next_cursor),
         cursor |-> response.next_cursor,
         acc |-> nextAcc]

\* A mutation of fetchPagesNext: has_more alone decides to go on.
fetchPagesNextNoCursorTest(response, soFar) ==
    LET fullPages == SelectSeq(response.results, isFull)
        nextAcc == soFar \o fullPages
    IN  [again |-> response.has_more,
         cursor |-> response.next_cursor,
         acc |-> nextAcc]

\* fetchPage of fetchAllPages after its await (lines 286-292).
fetchPagesNext(response, soFar) ==
    LET fullPages == SelectSeq(response.results, isFull)
        nextAcc == soFar \o fullPages
    IN  [again |-> response.has_more /\ Truthy(response.next_cursor),
         cursor |-> response.next_cursor,
         acc |-> nextAcc]

\* return fetchPage() of fetchBlocksRecursively (line 252): the first request.
CallFetchBlocksRecursively ==
    /\ collector = "fetchBlocksRecursively" /\ fetchPc = "idle"
    /\ fetchPc' = "awaiting"
    /\ cursor' = Null
    /\ requests' = <<Null>>
    /\ UNCHANGED <<source, collector, acc, received, fetchResult>>
    /\ UNCHANGED <<inlineVars, renderVars, runVars>>

\* fetchAllPages up to its first await (lines 255-258).
CallFetchAllPages ==
    /\ collector = "fetchAllPages" /\ fetchPc = "idle"
    /\ fetchPc' = "retrieving"
    /\ UNCHANGED <<source, collector, cursor, acc, requests, received, fetchResult>>
    /\ UNCHANGED <<inlineVars, renderVars, runVars>>

\* databases.retrieve resolves (lines 260-295): no data source throws,
\* otherwise the first request is made.
DatabaseRetrieved(dataSources) ==
    /\ fetchPc = "retrieving"
    /\ IF dataSources = 0
       THEN /\ fetchPc' = "failed"
            /\ UNCHANGED <<cursor, requests>>
       ELSE /\ fetchPc' = "awaiting"
            /\ cursor' = Null
            /\ requests' = <<Null>>
    /\ UNCHANGED <<source, collector, acc, received, fetchResult>>
    /\ UNCHANGED <<inlineVars, renderVars, runVars>>

\* The response to the request in flight arrives and fetchPage continues.
PageResponse ==
    /\ fetchPc = "awaiting"
    /\ LET response == Serve(source, cursor)
           next == IF collector = "fetchAllPages"
                   THEN fetchPagesNext(response, acc)
                   ELSE fetchBlocksNext(response, acc)
       IN  /\ received' = received + 1
           /\ acc' = next.acc
           /\ IF next.again
              THEN /\ cursor' = next.cursor
                   /\ requests' = Append(requests, next.cursor)
                   /\ UNCHANGED <<fetchPc, fetchResult>>
              ELSE /\ fetchPc' = "done"
                   /\ fetchResult' = next.acc
                   /\ UNCHANGED <<cursor, requests>>
    /\ UNCHANGED <<source, collector>>
    /\ UNCHANGED <<inlineVars, renderVars, runVars>>

\* The request in flight is rejected: the collector's promise rejects.
RequestRejected ==
    /\ fetchPc \in {"awaiting", "retrieving"}
    /\ fetchPc' = "failed"
    /\ UNCHANGED <<source, collector, cursor, acc, requests, received, fetchResult>>
    /\ UNCHANGED <<inlineVars, renderVars, runVars>>

(***************************************************************************)
(* Listings the server may hold: up to MaxListPages pages of up to         *)
(* MaxItems items, every page but the last linked to the next; the last    *)
(* page ends the listing properly or is malformed.  Items are numbered in  *)
(* listing order; a page's first item may be partial.                      *)
(***************************************************************************)
PageShapes == {[n |-> n, partial |-> pt] : n \in 0..MaxItems, pt \in BOOLEAN}
                \ {[n |-> 0, partial |-> TRUE]}

Endings == {[has_more |-> FALSE, next_cursor |-> Null],
            [has_more |-> TRUE, next_cursor |-> Null],
            [has_more |-> TRUE, next_cursor |-> Some(<< >>)],
            [has_more |-> FALSE, next_cursor |-> Some(CursorOf(1))]}

RECURSIVE ItemsBefore(_, _)
ItemsBefore(shapes, k) ==
    IF k <= 1 THEN 0 ELSE ItemsBefore(shapes, k - 1) + shapes[k - 1].n

Listing(shapes, ending) ==
    [k \in 1..Len(shapes) |->
        [results |-> [i \in 1..shapes[k].n |->
                        [id |-> ItemsBefore(shapes, k) + i,
                         full |-> ~(shapes[k].partial /\ i = 1)]],
         has_more |-> IF k < Len(shapes) THEN TRUE ELSE ending.has_more,
         next_cursor |-> IF k < Len(shapes) THEN Some(CursorOf(k + 1))
                         ELSE ending.next_cursor]]

Listings ==
    {Listing(shapes, ending) :
        shapes \in UNION {[1..p -> PageShapes] : p \in 1..MaxListPages},
        ending \in Endings}

FetchIdle ==
    /\ source = << >> /\ collector = "none" /\ fetchPc = "off" /\ cursor = Null
    /\ acc = << >> /\ requests = << >> /\ received = 0 /\ fetchResult = << >>

(***************************************************************************)
(* Names: getTitle, sanitizeFileName, ensureUniqueFileName.                *)
(***************************************************************************)
DigitChars == <<"0", "1", "2", "3", "4", "5", "6", "7", "8", "9">>

\* Number to decimal text, as a template literal does.
RECURSIVE Digits(_)
Digits(n) ==
    IF n < 10 THEN <<DigitChars[n + 1]>>
    ELSE Digits(n \div 10) \o <<DigitChars[(n % 10) + 1]>>

Untitled(page) == <<"U", "n", "t", "i", "t", "l", "e", "d", "-">> \o page.id

\* getTitle (lines 52-64); page.title is null when no property is a title.
getTitle(page) ==
    IF page.title = Null THEN Untitled(page)
    ELSE LET title == Trim(toInlineMarkdown(page.title[1]))
         IN  IF Len(title) > 0 THEN title ELSE Untitled(page)

\* The class [<>:"/\|?*\x00-\x1F] (line 69).
IsUnsafe(c) ==
    c \in {"<", ">", ":", "\"", "/", "\\", "|", "?", "*", NL, CR, "\t"}

RECURSIVE CollapseWhite(_)
CollapseWhite(s) ==
    IF s = << >> THEN << >>
    ELSE IF IsWhite(Head(s))
         THEN <<SP>> \o CollapseWhite(TrimStart(s))
         ELSE <<Head(s)>> \o CollapseWhite(Tail(s))

SliceLen == 180

\* sanitizeFileName (lines 66-72)
sanitizeFileName(name) ==
    LET replaced == [i \in 1..Len(name) |-> IF IsUnsafe(name[i]) THEN "-" ELSE name[i]]
        trimmed == Trim(CollapseWhite(replaced))
    IN  SubSeq(trimmed, 1, IF Len(trimmed) < SliceLen THEN Len(trimmed) ELSE SliceLen)

MdExt == <<".", "m", "d">>

\* `${baseName} (${index}).md`; an undefined index prints as "undefined".
suffixedName(baseName, index) ==
    baseName \o <<SP, "(">>
        \o (IF index = 0 THEN <<"u", "n", "d", "e", "f", "i", "n", "e", "d">>
            ELSE Digits(index))
        \o <<")">> \o MdExt

\* A mutation of probeIndices: the suffixes start at 1.
probeIndicesFromOne == [i \in 1..ProbeLen |-> i]

\* Array.from({ length: 10000 }, (_, i) => i + 2) (line 310), ProbeLen long.
probeIndices == [i \in 1..ProbeLen |-> i + 1]

\* Array.prototype.find over the probe indices (lines 310-313); 0 is undefined.
RECURSIVE findFree(_, _, _)
findFree(baseName, existing, k) ==
    IF k > Len(probeIndices) THEN 0
    ELSE IF suffixedName(baseName, probeIndices[k]) \notin existing
         THEN probeIndices[k]
         ELSE findFree(baseName, existing, k + 1)

\* A mutation of added: the name is not reserved.
addedNothing(existing, name) == existing

\* existing.add(name) (lines 306 and 320)
added(existing, name) == existing \cup {name}

\* A mutation of noMatch: exhaustion is not detected.
noMatchIgnored(match) == FALSE

\* !match (line 315)
noMatch(match) == match = 0

\* ensureUniqueFileName (lines 298-322): whether it returned (ok) or threw,
\* the name returned, and the set afterwards.
ensureUniqueFileName(desiredName, existing) ==
    LET baseName == IF Len(desiredName) > 0 THEN desiredName
                    ELSE <<"U", "n", "t", "i", "t", "l", "e", "d">>
        candidate == baseName \o MdExt
        match == findFree(baseName, existing, 1)
        unique == suffixedName(baseName, match)
    IN  IF candidate \notin existing
        THEN [ok |-> TRUE, name |-> candidate, existing |-> added(existing, candidate)]
        ELSE IF noMatch(match)
             THEN [ok |-> FALSE, name |-> << >>, existing |-> existing]
             ELSE [ok |-> TRUE, name |-> unique, existing |-> added(existing, unique)]

\* pages.map(...) of run (lines 331-335), from page k on: the jobs, the set of
\* used names, the calls of ensureUniqueFileName made, and whether one threw.
RECURSIVE mapExportJobs(_, _, _, _, _)
mapExportJobs(ps, k, used, jobs, log) ==
    IF k > Len(ps) THEN [ok |-> TRUE, jobs |-> jobs, used |-> used, log |-> log]
    ELSE LET desired == sanitizeFileName(getTitle(ps[k]))
             r == ensureUniqueFileName(desired, used)
             entry == [desired |-> desired, before |-> used, ok |-> r.ok,
                       name |-> r.name, after |-> r.existing]
         IN  IF r.ok
             THEN mapExportJobs(ps, k + 1, r.existing,
                                Append(jobs, [page |-> ps[k], fileName |-> r.name]),
                                Append(log, entry))
             ELSE [ok |-> FALSE, jobs |-> << >>, used |-> r.existing,
                   log |-> Append(log, entry)]

(***************************************************************************)
(* run (lines 326-355).  A pipeline is the async callback of lines         *)
(* 338-346: it awaits fetchBlocksRecursively, then stringifyBlocks (which  *)
(* fetches nested children), then writeFile.  A rejection of any pipeline  *)
(* rejects Promise.all and run, and the catch handler calls                *)
(* process.exit(1) in the same turn of the event loop.                     *)
(***************************************************************************)
otherThanRun == <<inlineVars, renderVars, fetchVars>>

\* await mkdir resolves; fetchAllPages is called (lines 327-330).
MkdirDone ==
    /\ runPc = "mkdir"
    /\ runPc' = "listing"
    /\ UNCHANGED <<pages, usedNames, exportJobs, allocLog, jobPc, files, fetchFailed>>
    /\ UNCHANGED otherThanRun

\* mkdir or fetchAllPages rejects: run rejects and the process exits with 1.
SetupFails ==
    /\ runPc \in {"mkdir", "listing"}
    /\ runPc' = "exit1"
    /\ UNCHANGED <<pages, usedNames, exportJobs, allocLog, jobPc, files, fetchFailed>>
    /\ UNCHANGED otherThanRun

\* fetchAllPages resolves with ps; run goes on to its next await (lines
\* 330-347): names are allocated for every page, then every pipeline is
\* started.  A throw of ensureUniqueFileName rejects run.
ListingDone(ps) ==
    /\ runPc = "listing"
    /\ LET m == mapExportJobs(ps, 1, {}, << >>, << >>)
       IN  /\ pages' = ps
           /\ usedNames' = m.used
           /\ allocLog' = m.log
           /\ exportJobs' = m.jobs
           /\ jobPc' = [i \in 1..Len(m.jobs) |-> "fetching"]
           /\ runPc' = IF m.ok THEN "exporting" ELSE "exit1"
    /\ UNCHANGED <<files, fetchFailed>>
    /\ UNCHANGED otherThanRun

\* fetchBlocksRecursively(page.id) resolves (line 339).
BlocksFetched(i) ==
    /\ runPc = "exporting" /\ jobPc[i] = "fetching"
    /\ jobPc' = [jobPc EXCEPT ![i] = "rendering"]
    /\ UNCHANGED <<runPc, pages, usedNames, exportJobs, allocLog, files, fetchFailed>>
    /\ UNCHANGED otherThanRun

\* stringifyBlocks resolves; writeFile is called (lines 340-345).
BlocksRendered(i) ==
    /\ runPc = "exporting" /\ jobPc[i] = "rendering"
    /\ jobPc' = [jobPc EXCEPT ![i] = "writing"]
    /\ UNCHANGED <<runPc, pages, usedNames, exportJobs, allocLog, files, fetchFailed>>
    /\ UNCHANGED otherThanRun

\* writeFile resolves: the artifact is on disk (line 345).
FileWritten(i) ==
    /\ runPc = "exporting" /\ jobPc[i] = "writing"
    /\ jobPc' = [jobPc EXCEPT ![i] = "written"]
    /\ files' = files \cup {exportJobs[i].fileName}
    /\ UNCHANGED <<runPc, pages, usedNames, exportJobs, allocLog, fetchFailed>>
    /\ UNCHANGED otherThanRun

\* A listChildren call of pipeline i rejects, while fetching the page's
\* blocks or a nested block's children: Promise.all rejects, run rejects,
\* process.exit(1) (lines 337, 352-355).
FetchFails(i) ==
    /\ runPc = "exporting" /\ jobPc[i] \in {"fetching", "rendering"}
    /\ jobPc' = [jobPc EXCEPT ![i] = "failed"]
    /\ fetchFailed' = fetchFailed \cup {i}
    /\ runPc' = "exit1"
    /\ UNCHANGED <<pages, usedNames, exportJobs, allocLog, files>>
    /\ UNCHANGED otherThanRun

\* writeFile of pipeline i rejects: the same path to process.exit(1).
WriteFails(i) ==
    /\ runPc = "exporting" /\ jobPc[i] = "writing"
    /\ jobPc' = [jobPc EXCEPT ![i] = "failed"]
    /\ runPc' = "exit1"
    /\ UNCHANGED <<pages, usedNames, exportJobs, allocLog, files, fetchFailed>>
    /\ UNCHANGED otherThanRun

\* Promise.all resolves; the count is logged and run resolves (lines 347-350).
AllExported ==
    /\ runPc = "exporting"
    /\ \A i \in 1..Len(exportJobs) : jobPc[i] = "written"
    /\ runPc' = "exit0"
    /\ UNCHANGED <<pages, usedNames, exportJobs, allocLog, jobPc, files, fetchFailed>>
    /\ UNCHANGED otherThanRun

(***************************************************************************)
(* Listings of the database: up to MaxPages pages over two titles, one of  *)
(* which looks like a suffixed variant of the other; and short listings    *)
(* that also hold titles to sanitize (two of them to the same name), an    *)
(* empty title and no title.                                               *)
(***************************************************************************)
Titles ==
    {Some(RichText(<<"X">>)), Some(RichText(<<"X", SP, "(", "2", ")">>))}

MoreTitles ==
    Titles \cup {Some(RichText(<<SP, "Y", "/", SP, SP, "z">>)),
                 Some(RichText(<<"X", ":">>)), Some(RichText(<<"X", "?", SP>>)),
                 Some(<< >>), Null}

PagesOf(t) == [k \in 1..Len(t) |-> [id |-> <<"p">> \o Digits(k), title |-> t[k]]]

PageLists ==
    {PagesOf(t) : t \in UNION {[1..n -> Titles] : n \in 0..MaxPages}}
    \cup {PagesOf(t) : t \in UNION {[1..n -> MoreTitles] : n \in 1..3}}

RunIdle ==
    /\ runPc = "off" /\ pages = << >> /\ usedNames = {} /\ exportJobs = << >>
    /\ allocLog = << >> /\ jobPc = << >> /\ files = {} /\ fetchFailed = {}

(***************************************************************************)
(* Specifications.                                                         *)
(***************************************************************************)
InitInline ==
    /\ richText \in InlineInputs /\ inlineOut = << >> /\ inlinePc = "input"
    /\ RenderIdle /\ FetchIdle /\ RunIdle

NextInline == ComposeInline

SpecInline == InitInline /\ [][NextInline]_vars

InitRender ==
    /\ blocks \in RenderInputs /\ markdown = << >> /\ rendered = {} /\ renderPc = "input"
    /\ InlineIdle /\ FetchIdle /\ RunIdle

NextRender == Render

SpecRender == InitRender /\ [][NextRender]_vars

InitFetch ==
    /\ source \in Listings
    /\ collector \in {"fetchBlocksRecursively", "fetchAllPages"}
    /\ fetchPc = "idle" /\ cursor = Null /\ acc = << >> /\ requests = << >>
    /\ received = 0 /\ fetchResult = << >>
    /\ InlineIdle /\ RenderIdle /\ RunIdle

NextFetch ==
    \/ CallFetchBlocksRecursively
    \/ CallFetchAllPages
    \/ \E dataSources \in 0..1 : DatabaseRetrieved(dataSources)
    \/ PageResponse
    \/ RequestRejected

SpecFetch == InitFetch /\ [][NextFetch]_vars

InitRun ==
    /\ runPc = "mkdir" /\ pages = << >> /\ usedNames = {} /\ exportJobs = << >>
    /\ allocLog = << >> /\ jobPc = << >> /\ files = {} /\ fetchFailed = {}
    /\ InlineIdle /\ RenderIdle /\ FetchIdle

NextRun ==
    \/ MkdirDone
    \/ SetupFails
    \/ \E ps \in PageLists : ListingDone(ps)
    \/ \E i \in 1..Len(exportJobs) : BlocksFetched(i)
    \/ \E i \in 1..Len(exportJobs) : BlocksRendered(i)
    \/ \E i \in 1..Len(exportJobs) : FileWritten(i)
    \/ \E i \in 1..Len(exportJobs) : FetchFails(i)
    \/ \E i \in 1..Len(exportJobs) : WriteFails(i)
    \/ AllExported

SpecRun == InitRun /\ [][NextRun]_vars

(***************************************************************************)
(* Claims about toInlineMarkdown (SpecInline).                             *)
(***************************************************************************)
HasLink(item) == item.href # Null /\ item.href[1] # << >>

\* The opening markers of a run, outermost first.
Opening(item) ==
    (IF HasLink(item) THEN <<"[">> ELSE << >>)
    \o (IF item.annotations.underline THEN <<"<", "u", ">">> ELSE << >>)
    \o (IF item.annotations.strikethrough THEN <<"~", "~">> ELSE << >>)
    \o (IF item.annotations.italic THEN <<"*">> ELSE << >>)
    \o (IF item.annotations.bold THEN <<"*", "*">> ELSE << >>)
    \o (IF item.annotations.code THEN <<BT>> ELSE << >>)

\* The closing markers of a run, innermost first.
Closing(item) ==
    (IF item.annotations.code THEN <<BT>> ELSE << >>)
    \o (IF item.annotations.bold THEN <<"*", "*">> ELSE << >>)
    \o (IF item.annotations.italic THEN <<"*">> ELSE << >>)
    \o (IF item.annotations.strikethrough THEN <<"~", "~">> ELSE << >>)
    \o (IF item.annotations.underline THEN <<"<", "/", "u", ">">> ELSE << >>)
    \o (IF HasLink(item) THEN <<"]", "(">> \o item.href[1] \o <<")">> ELSE << >>)

ExpectedRun(item) ==
    IF item.type = "equation"
    THEN <<"$">> \o item.expression \o <<"$">>
    ELSE Opening(item) \o item.plain_text \o Closing(item)

RECURSIVE ExpectedUpTo(_, _)
ExpectedUpTo(rt, n) ==
    IF n = 0 THEN << >> ELSE ExpectedUpTo(rt, n - 1) \o ExpectedRun(rt[n])

\* C8: a text run with an empty payload and no link renders as the empty
\* string, whatever its annotations (no empty style wrapper is emitted).
EmptyRunRendersEmpty ==
    (/\ inlinePc = "done"
     /\ Len(richText) = 1
     /\ richText[1].type = "text"
     /\ richText[1].plain_text = << >>
     /\ richText[1].href = Null)
    => inlineOut = << >>

\* C9: each run is wrapped, innermost to outermost, by code, bold, italic,
\* strikethrough, underline, link; an equation run is $expression$ whatever
\* its annotations and link; the output is the runs' outputs concatenated in
\* order.
StyleCompositionOrder ==
    inlinePc = "done" => inlineOut = ExpectedUpTo(richText, Len(richText))

\* C9 witness: bold + italic + link has been rendered as [***a***](u), and an
\* annotated, linked equation run as $e$.
StyleCompositionWitness ==
    /\ inlinePc = "done"
    /\ Len(richText) = 2
    /\ richText[1] = TextRun(<<"b">>, [NoAnnotations EXCEPT !.bold = TRUE, !.italic = TRUE],
                             Some(<<"u">>))
    /\ richText[2].type = "equation" /\ richText[2].annotations.bold
    /\ inlineOut = <<"[", "*", "*", "*", "b", "*", "*", "*", "]", "(", "u", ")",
                     "$", "e", "$">>

(***************************************************************************)
(* Claims about the block renderer (SpecRender).                           *)
(***************************************************************************)
RECURSIVE FirstLine(_)
FirstLine(s) ==
    IF s = << >> \/ Head(s) = NL THEN << >> ELSE <<Head(s)>> \o FirstLine(Tail(s))

\* What follows the first line break, up to the next one.
SecondLine(s) ==
    IF Len(FirstLine(s)) >= Len(s) THEN << >>
    ELSE FirstLine(SubSeq(s, Len(FirstLine(s)) + 2, Len(s)))

RECURSIVE LeadingSpaces(_)
LeadingSpaces(s) ==
    IF s # << >> /\ Head(s) = SP THEN 1 + LeadingSpaces(Tail(s)) ELSE 0

ProducesOutput(out) == keepLine(normalizeText(out))

\* The block's own text begins with white space (only a paragraph's line
\* begins with its text; every other kind's begins with its marker).
OwnTextStartsWhite(b) ==
    /\ b.type = "paragraph"
    /\ toInlineMarkdown(b.rich_text) # << >>
    /\ IsWhite(toInlineMarkdown(b.rich_text)[1])

\* Some child of the call's block produced output when rendered one level down.
SomeChildRenders(c) ==
    \E k \in rendered :
        /\ \E i \in 1..Len(c.block.children) : c.block.children[i] = k.block
        /\ k.treeDepth = c.treeDepth + 1
        /\ ProducesOutput(k.out)

\* C7: a paragraph renders as the empty string only when its composed text
\* is empty and it has no children (none that renders anything): a paragraph
\* with empty text whose children render non-empty still contributes the
\* children's output.
ParagraphOmissionRule ==
    renderPc = "done" =>
        \A c \in rendered :
            (c.block.type = "paragraph" /\ c.out = << >>) =>
                /\ toInlineMarkdown(c.block.rich_text) = << >>
                /\ ~SomeChildRenders(c)

\* C10: a block at tree depth d that produces output has its first line
\* prefixed by exactly 2*d spaces (the line is 2*d spaces followed by the
\* block's own line, and counts exactly 2*d leading spaces unless the block's
\* own text begins with white space); the line under a parent is a child's
\* first line, at depth d+1; the top level is rendered at depth 0 and a child
\* at its parent's depth plus one.
DepthInvariant ==
    renderPc = "done" =>
        /\ \A c \in rendered :
            /\ c.depth = c.treeDepth
            /\ ProducesOutput(c.out) =>
                  /\ FirstLine(c.out) =
                        Repeat(<<SP>>, 2 * c.treeDepth)
                            \o FirstLine(stringifyBlock(c.block, defaultDepth))
                  /\ ~OwnTextStartsWhite(c.block) =>
                        LeadingSpaces(FirstLine(c.out)) = 2 * c.treeDepth
                  /\ (c.block.type # "code" /\ SecondLine(c.out) # << >>) =>
                        \E k \in rendered :
                            /\ \E i \in 1..Len(c.block.children) :
                                  c.block.children[i] = k.block
                            /\ k.treeDepth = c.treeDepth + 1
                            /\ FirstLine(k.out) = SecondLine(c.out)
                            /\ Len(SecondLine(c.out)) >= 2 * (c.treeDepth + 1)
        /\ markdown # << >> =>
              \E c \in rendered : c.treeDepth = 0 /\ FirstLine(c.out) = FirstLine(markdown)

\* C10 witness: a block at tree depth 2 and its parent at depth 1 both
\* produced output, under a top-level block that produced output.
DepthWitness ==
    /\ renderPc = "done"
    /\ markdown # << >>
    /\ \E c, k \in rendered :
          /\ c.treeDepth = 1 /\ k.treeDepth = 2
          /\ \E i \in 1..Len(c.block.children) : c.block.children[i] = k.block
          /\ ProducesOutput(c.out) /\ ProducesOutput(k.out)
          /\ LeadingSpaces(FirstLine(k.out)) = 4
          /\ SecondLine(c.out) = FirstLine(k.out)

(***************************************************************************)
(* Claims about the collectors (SpecFetch).                                *)
(***************************************************************************)
\* Every page but the last says has_more with the next page's cursor; the
\* last says has_more false.
WellFormed(src) ==
    /\ \A k \in 1..(Len(src) - 1) :
          src[k].has_more /\ src[k].next_cursor = Some(CursorOf(k + 1))
    /\ ~src[Len(src)].has_more

RECURSIVE ItemsUpTo(_, _)
ItemsUpTo(src, k) ==
    IF k = 0 THEN << >> ELSE ItemsUpTo(src, k - 1) \o src[k].results

FullItemsUpTo(src, k) == SelectSeq(ItemsUpTo(src, k), isFull)

\* C3: over a well-formed listing of P pages the collector returns exactly
\* the fully-resolved items, in listing order, each once; it requests each
\* page once, in order; and it requests page k+1 only after the response to
\* page k has arrived.
PaginationComplete ==
    /\ fetchPc \in {"awaiting", "done", "failed"} =>
          /\ Len(requests) \in {received, received + 1}
          /\ fetchPc = "awaiting" => Len(requests) = received + 1
          /\ \A k \in 1..Len(requests) :
                requests[k] = IF k = 1 THEN Null ELSE Some(CursorOf(k))
    /\ (fetchPc = "done" /\ WellFormed(source)) =>
          /\ fetchResult = FullItemsUpTo(source, Len(source))
          /\ \A i, j \in 1..Len(fetchResult) :
                i < j => fetchResult[i].id < fetchResult[j].id
          /\ Len(requests) = Len(source)
          /\ received = Len(source)

\* C3 witness: three pages, items on the first and last, all collected.
PaginationWitness ==
    /\ fetchPc = "done" /\ WellFormed(source)
    /\ Len(source) = 3 /\ received = 3
    /\ Len(source[1].results) = 2 /\ Len(source[2].results) = 0
    /\ Len(fetchResult) >= 3

MissingCursor(response) ==
    response.has_more /\ ~Truthy(response.next_cursor)

\* C4: once a response with has_more true and no continuation cursor has
\* been received, the collector has returned (no error, no further request)
\* the items accumulated so far, that page's included.
MalformedResponseTerminates ==
    \A k \in 1..received :
        MissingCursor(source[k]) =>
            /\ fetchPc = "done"
            /\ Len(requests) = k /\ received = k
            /\ fetchResult = FullItemsUpTo(source, k)

\* C4 witness: the second page claimed more without a cursor and the
\* collector returned both pages' items.
MalformedResponseWitness ==
    /\ fetchPc = "done" /\ received = 2
    /\ source[2].has_more /\ source[2].next_cursor = Null
    /\ Len(source[1].results) > 0 /\ Len(source[2].results) > 0
    /\ fetchResult = FullItemsUpTo(source, 2) /\ Len(fetchResult) >= 2

(***************************************************************************)
(* Claims about run and the name allocator (SpecRun).                      *)
(***************************************************************************)
BaseOf(desired) ==
    IF desired = << >> THEN <<"U", "n", "t", "i", "t", "l", "e", "d">> ELSE desired

\* The name of index a for a stem: 1 is the unsuffixed name, a >= 2 the
\* variant "<stem> (a).md".
NameOf(stem, a) ==
    IF a = 1 THEN BaseOf(stem) \o <<".", "m", "d">>
    ELSE BaseOf(stem) \o <<SP, "(">> \o Digits(a) \o <<")", ".", "m", "d">>

ProbedIndices == 2..(ProbeLen + 1)

\* C1: when a fetch of one container's pipeline fails, every other
\* container whose own fetches did not fail still gets its artifact written.
FailureIsolation ==
    (runPc \in {"exit0", "exit1"} /\ fetchFailed # {}) =>
        \A j \in 1..Len(exportJobs) :
            j \notin fetchFailed =>
                /\ jobPc[j] = "written"
                /\ exportJobs[j].fileName \in files

\* C2: every name returned by ensureUniqueFileName over the shared set was
\* unused before the call and is reserved after it, the returned names are
\* pairwise distinct, and so are the files the pipelines write, in every
\* interleaving.
NameUniqueness ==
    /\ \A i \in 1..Len(allocLog) :
          /\ allocLog[i].before = IF i = 1 THEN {} ELSE allocLog[i - 1].after
          /\ allocLog[i].ok =>
                /\ allocLog[i].name \notin allocLog[i].before
                /\ allocLog[i].name \in allocLog[i].after
                /\ allocLog[i].name \in usedNames
    /\ \A i, j \in 1..Len(allocLog) :
          (i < j /\ allocLog[i].ok /\ allocLog[j].ok) =>
              allocLog[i].name # allocLog[j].name
    /\ \A i, j \in 1..Len(exportJobs) :
          i # j => exportJobs[i].fileName # exportJobs[j].fileName
    /\ Cardinality(files) = Cardinality({i \in 1..Len(exportJobs) : jobPc[i] = "written"})

\* C2 witness: three containers, two with the same title and one titled
\* like a suffixed variant, all written under three names.
NameUniquenessWitness ==
    /\ runPc = "exit0" /\ Len(exportJobs) = 3
    /\ \E i, j, k \in 1..3 :
          /\ i < j /\ pages[i].title = pages[j].title
          /\ pages[i].title = Some(RichText(<<"X">>))
          /\ pages[k].title = Some(RichText(<<"X", SP, "(", "2", ")">>))
    /\ Cardinality(files) = 3

\* Containers i and j have the same title: getTitle and sanitizeFileName
\* give them the same stem.
SameTitle(i, j) ==
    sanitizeFileName(getTitle(pages[i])) = sanitizeFileName(getTitle(pages[j]))

\* How many containers before the i-th have its title.
EarlierSameTitle(i) == Cardinality({j \in 1..(i - 1) : SameTitle(j, i)})

\* Each call returned the unsuffixed name if it was unused, and otherwise
\* the variant with the smallest unused index among those probed.
SmallestFreeName ==
    \A i \in 1..Len(allocLog) :
        LET e == allocLog[i]
        IN  e.ok =>
              IF NameOf(e.desired, 1) \notin e.before
              THEN e.name = NameOf(e.desired, 1)
              ELSE \E a \in ProbedIndices :
                      /\ e.name = NameOf(e.desired, a)
                      /\ \A b \in 2..(a - 1) : NameOf(e.desired, b) \in e.before

\* The jobs are the listing's pages in order with the names allocated for
\* them, whatever the pipelines have done since.
NamesFollowListing ==
    /\ Len(exportJobs) \in {0, Len(pages)}
    /\ \A i \in 1..Len(exportJobs) :
          /\ exportJobs[i].page = pages[i]
          /\ exportJobs[i].fileName = allocLog[i].name
          /\ allocLog[i].desired = sanitizeFileName(getTitle(pages[i]))

\* C5, as claimed: the unsuffixed name if unused, else the smallest unused
\* suffixed index >= 2; so the k containers of one title receive, in listing
\* order, "<stem>.md", "<stem> (2).md", ..., "<stem> (k).md"; and the
\* assignment depends only on the listing order.
DuplicateNumberingInOrder ==
    /\ SmallestFreeName
    /\ NamesFollowListing
    /\ \A i \in 1..Len(exportJobs) :
          exportJobs[i].fileName = NameOf(allocLog[i].desired, 1 + EarlierSameTitle(i))

\* No earlier container of another title was given a name of the i-th
\* container's stem.
NoForeignName(i) ==
    \A j \in 1..(i - 1) :
        ~SameTitle(j, i) =>
            \A a \in 1..(ProbeLen + 1) :
                allocLog[j].name # NameOf(allocLog[i].desired, a)

\* C5, amended: the unsuffixed name if unused, else the smallest unused
\* suffixed index among those probed; the containers of one title receive,
\* in listing order, names of strictly increasing index, which are
\* "<stem>.md", "<stem> (2).md", ..., "<stem> (k).md" when no earlier container
\* of another title was given a name of that stem; and the assignment
\* depends only on the listing order.
DuplicateNumberingAmended ==
    /\ SmallestFreeName
    /\ NamesFollowListing
    /\ \A i, j \in 1..Len(exportJobs) :
          (i < j /\ SameTitle(i, j)) =>
              \E a, b \in 1..(ProbeLen + 1) :
                  /\ a < b
                  /\ exportJobs[i].fileName = NameOf(allocLog[i].desired, a)
                  /\ exportJobs[j].fileName = NameOf(allocLog[j].desired, b)
    /\ \A i \in 1..Len(exportJobs) :
          NoForeignName(i) =>
              exportJobs[i].fileName = NameOf(allocLog[i].desired, 1 + EarlierSameTitle(i))

\* C5 witness: three containers titled X were exported as X.md, X (2).md and
\* X (3).md, in listing order.
DuplicateNumberingWitness ==
    /\ runPc = "exit0" /\ Len(exportJobs) = 3
    /\ \A i \in 1..3 : pages[i].title = Some(RichText(<<"X">>))
    /\ exportJobs[1].fileName = <<"X", ".", "m", "d">>
    /\ exportJobs[2].fileName = <<"X", SP, "(", "2", ")", ".", "m", "d">>
    /\ exportJobs[3].fileName = <<"X", SP, "(", "3", ")", ".", "m", "d">>
    /\ files = {exportJobs[i].fileName : i \in 1..3}

\* The unsuffixed name and every probed variant are reserved.
AllReserved(desired, existing) ==
    /\ NameOf(desired, 1) \in existing
    /\ \A a \in ProbedIndices : NameOf(desired, a) \in existing

\* C6: ensureUniqueFileName fails exactly when the unsuffixed name and every
\* probed variant are reserved; the failing call reserves nothing; and the
\* failure ends the run in failure with no pipeline started and no artifact
\* written.
AllocationExhaustion ==
    /\ \A i \in 1..Len(allocLog) :
          /\ ~allocLog[i].ok <=> AllReserved(allocLog[i].desired, allocLog[i].before)
          /\ ~allocLog[i].ok =>
                /\ allocLog[i].after = allocLog[i].before
                /\ usedNames = allocLog[i].before
                /\ i = Len(allocLog)
                /\ runPc = "exit1"
                /\ exportJobs = << >> /\ jobPc = << >>
                /\ files = {}

\* C6 witness: the last of ProbeLen + 2 containers of one title found every
\* name taken and the run has exited in failure.
AllocationExhaustionWitness ==
    /\ runPc = "exit1"
    /\ Len(pages) = ProbeLen + 2 /\ Len(allocLog) = ProbeLen + 2
    /\ ~allocLog[Len(allocLog)].ok
    /\ \A i \in 1..(Len(allocLog) - 1) : allocLog[i].ok
    /\ Cardinality(usedNames) = ProbeLen + 1
    /\ files = {}

=============================================================================
